---- MODULE Spec2Model ----
(***************************************************************************)
(* pymlstate.State (state.go): a record bucket filled by Write and flushed *)
(* to the delegate's "fit" every batch_train_size records, guarded by one  *)
(* sync.RWMutex, with a versioned Save/Load of its MLParams.               *)
(*                                                                         *)
(* Every public method is modelled per caller as                           *)
(*   idle -> wait (called, blocked on the lock)                            *)
(*        -> invoke (lock held, the delegate is about to run)              *)
(*        -> ret (lock held, result computed) -> idle (deferred unlock).   *)
(***************************************************************************)
EXTENDS Integers, Sequences, FiniteSets, TLC

\* ------------------------------------------------------------- bounds
NumWriters == 3
MaxWrites == 4
MaxRecs == 2
MaxBatch == 3

\* the callers of the write-only workload, and those of the general workload
Writers == 1..NumWriters
Callers == {1, 2}
Procs == Writers \cup Callers
BatchSizes == 0..MaxBatch
Ops == {"Write", "Fit", "FitMap", "Predict", "Save", "Load", "Terminate"}

VARIABLES
  params,      \* State.params (MLParams)
  bucket,      \* State.bucket
  terminated,  \* the termination flag kept by State.base
  rwm,         \* State.rwm
  pc, op, rec, pend, ret,   \* each caller's position, method, argument, locals, result
  io,          \* each caller's io.Reader (Load) or io.Writer (Save)
  dlg,         \* what each caller handed to the delegate's fit/predict and got back
  nextRec,     \* number of Write calls made so far
  lockOrder,   \* records in the order their Writes acquired the lock
  fits,        \* the "fit" calls made by Write's flush, in order
  lateCalls    \* delegate operations run after the delegate was released

vars == <<params, bucket, terminated, rwm, pc, op, rec, pend, ret, io, dlg,
          nextRec, lockOrder, fits, lateCalls>>

\* ------------------------------------------------------------- persisted format
pyMLStateFormatVersion == 1

\* "batch_train_size" in ASCII
KeyBytes == <<98, 97, 116, 99, 104, 95, 116, 114, 97, 105, 110, 95, 115, 105, 122, 101>>

\* msgpack integer: positive fixint, negative fixint, uint8
EncodeInt(n) ==
  IF n >= 0 /\ n <= 127 THEN <<n>>
  ELSE IF n < 0 /\ n >= -32 THEN <<256 + n>>
  ELSE <<204, n % 256>>

\* codec.Encode(&s.params): fixmap of one entry, fixstr key of 16 bytes, the value
EncodeMLParams(p) == <<129, 176>> \o KeyBytes \o EncodeInt(p.BatchSize)

\* binary.Write(w, binary.LittleEndian, uint32)
PutUint32(n) == <<n % 256, (n \div 256) % 256, (n \div 65536) % 256, (n \div 16777216) % 256>>

Uint32(b) == b[1] + 256 * b[2] + 65536 * b[3] + 16777216 * b[4]

\* the bytes saveState writes
saveState(p) ==
  LET out == EncodeMLParams(p)
  IN  <<pyMLStateFormatVersion>> \o PutUint32(Len(out)) \o out

\* codec.Decode(&saved): "ok" is FALSE on a malformed block
DecodeMLParams(buf) ==
  IF Len(buf) >= 19 /\ buf[1] = 129 /\ buf[2] = 176 /\ SubSeq(buf, 3, 18) = KeyBytes
  THEN IF buf[19] <= 127 /\ Len(buf) = 19
         THEN [ok |-> TRUE, saved |-> [BatchSize |-> buf[19]]]
       ELSE IF buf[19] >= 224 /\ Len(buf) = 19
         THEN [ok |-> TRUE, saved |-> [BatchSize |-> buf[19] - 256]]
       ELSE IF buf[19] = 204 /\ Len(buf) = 20
         THEN [ok |-> TRUE, saved |-> [BatchSize |-> buf[20]]]
       ELSE [ok |-> FALSE, saved |-> [BatchSize |-> 0]]
  ELSE [ok |-> FALSE, saved |-> [BatchSize |-> 0]]

Min(a, b) == IF a < b THEN a ELSE b

\* a size check that lets an empty block through
SizeIsZeroUnchecked(dataSize) == FALSE

\* if dataSize == 0
SizeIsZero(dataSize) == dataSize = 0

\* A reader: its bytes and the most bytes one Read call hands out.
\* loadMLParamsAndDataV1 up to the delegate's load, on the bytes after the version.
\* Its errors: "io" (binary.Read or r.Read failed), "zero_size", "short_read"
\* (n != int(dataSize)), "decode".
loadMLParamsAndDataV1(bytes, chunk) ==
  LET rest == SubSeq(bytes, 2, Len(bytes))
      none == [BatchSize |-> 0]
  IN  IF Len(rest) < 4 THEN [err |-> "io", saved |-> none, pos |-> Len(bytes)]
      ELSE LET dataSize == Uint32(rest)
               avail == Len(rest) - 4
               n == Min(Min(dataSize, chunk), avail)
           IN  IF SizeIsZero(dataSize) THEN [err |-> "zero_size", saved |-> none, pos |-> 5]
               ELSE IF avail = 0 THEN [err |-> "io", saved |-> none, pos |-> 5]
               ELSE IF n # dataSize THEN [err |-> "short_read", saved |-> none, pos |-> 5 + n]
               ELSE LET d == DecodeMLParams(SubSeq(rest, 5, 4 + n))
                    IN  IF ~d.ok THEN [err |-> "decode", saved |-> none, pos |-> 5 + n]
                        ELSE [err |-> "none", saved |-> d.saved, pos |-> 5 + n]

\* a dispatch that takes every later version for version 1
SupportedVersionOrLater(v) == v >= 1

\* switch formatVersion { case 1:
SupportedVersion(v) == v = 1

\* Load after the termination check: the version byte and the dispatch on it
LoadParse(bytes, chunk) ==
  IF Len(bytes) < 1 THEN [err |-> "io", saved |-> [BatchSize |-> 0], pos |-> 0]
  ELSE IF SupportedVersion(bytes[1]) THEN loadMLParamsAndDataV1(bytes, chunk)
  ELSE [err |-> "unsupported_version", saved |-> [BatchSize |-> 0], pos |-> 1]

\* the readers Load is tried on
Chunks == {1, 64}
Payload == <<7>>
Streams ==
  {saveState([BatchSize |-> b]) \o Payload : b \in BatchSizes}
    \cup {<<2>> \o SubSeq(saveState([BatchSize |-> 1]), 2, 24)}
    \cup {<<1, 0, 0, 0, 0>>, <<1, 0, 0, 0, 0>> \o Payload}
    \cup {SubSeq(saveState([BatchSize |-> 1]), 1, 10)}
    \cup {<<>>}

\* ------------------------------------------------------------- the lock
\* a lock that does not wait for the readers to leave
CanLockDespiteReaders == rwm.writer = 0

\* s.rwm.Lock() returns: no writer and no reader holds the lock
CanLock == rwm.writer = 0 /\ rwm.readers = {}

\* a read lock that does not wait for the writer to leave
CanRLockDespiteWriter == TRUE

\* s.rwm.RLock() returns: no writer holds the lock
CanRLock == rwm.writer = 0

Lock(p) == [rwm EXCEPT !.writer = p]
RLock(p) == [rwm EXCEPT !.readers = @ \cup {p}]

\* ------------------------------------------------------------- the delegate
\* State.base is pystate.Base; the delegate behind it is released by a successful
\* Terminate, and base refuses every later operation without reaching the delegate.
CheckTermination == terminated

\* s.base.Call on a terminated base returns the termination error
BaseCallRefused == CheckTermination

\* s.base.Terminate on a terminated base returns nil and releases nothing
BaseTerminateDone == CheckTermination

Late(name) == IF terminated THEN lateCalls \cup {name} ELSE lateCalls

\* ------------------------------------------------------------- Write's steps
\* a Write that skips the termination check
WriteTerminatedUnchecked == FALSE

\* if err := s.base.CheckTermination(); err != nil { return err }
WriteTerminated == CheckTermination

\* a flush one record early
BatchFullEarly(b) == ~(Len(b) < params.BatchSize - 1)

\* a flush one record late
BatchFullLate(b) == ~(Len(b) <= params.BatchSize)

\* the negation of: len(s.bucket) < s.params.BatchSize
BatchFull(b) == ~(Len(b) < params.BatchSize)

\* fit called with the written tuple alone
FitArgLast(b) == <<b[Len(b)]>>

\* the argument of s.fit(ctx, s.bucket)
FitArg(b) == b

\* a flush that forgets to clear the bucket
AfterFitKept(b, ok) == b

\* a flush that keeps the batch for a retry when fit failed
AfterFitRetry(b, ok) == IF ok THEN <<>> ELSE b

\* s.bucket = s.bucket[:0], whatever fit returned
AfterFit(b, ok) == SubSeq(b, 1, 0)

\* ------------------------------------------------------------- state
\* a caller with no reader or writer, and one that has made no delegate call
NoIO == [bytes |-> <<>>, chunk |-> 0, pos |-> 0]
NoCall == [arg |-> <<>>, result |-> "none"]

Init ==
  /\ params \in {[BatchSize |-> b] : b \in BatchSizes}
  /\ bucket = <<>>
  /\ terminated = FALSE
  /\ rwm = [writer |-> 0, readers |-> {}]
  /\ pc = [p \in Procs |-> "idle"]
  /\ op = [p \in Procs |-> "Write"]
  /\ rec = [p \in Procs |-> 0]
  /\ pend = [p \in Procs |-> [BatchSize |-> 0]]
  /\ ret = [p \in Procs |-> "none"]
  /\ io = [p \in Procs |-> NoIO]
  /\ dlg = [p \in Procs |-> NoCall]
  /\ nextRec = 0
  /\ lockOrder = <<>>
  /\ fits = <<>>
  /\ lateCalls = {}

Go(p, to, result) ==
  /\ pc' = [pc EXCEPT ![p] = to]
  /\ ret' = [ret EXCEPT ![p] = result]

\* a caller invokes a method and blocks on the lock; a workload makes at most
\* max calls of Write
Call(p, o, max) ==
  /\ pc[p] = "idle"
  /\ o = "Write" => nextRec < max
  /\ pc' = [pc EXCEPT ![p] = "wait"]
  /\ op' = [op EXCEPT ![p] = o]
  /\ ret' = [ret EXCEPT ![p] = "none"]
  /\ rec' = [rec EXCEPT ![p] = IF o = "Write" THEN nextRec + 1 ELSE 0]
  /\ nextRec' = IF o = "Write" THEN nextRec + 1 ELSE nextRec
  /\ UNCHANGED <<params, bucket, terminated, rwm, pend, lockOrder, fits, lateCalls, io, dlg>>

\* the values a successful fit can return: not a map, a map without loss, with
\* a loss that is no number, without accuracy, with an accuracy that is no
\* number, or a map with both as numbers
Shapes == {"not_map", "no_loss", "loss_nan", "no_acc", "acc_nan", "both"}

\* a Write that fails when the fit result is not a map
WriteResultStrict(shape) ==
  IF shape \in {"error", "not_map"} THEN "fit_failed" ELSE "ok"

\* what Write returns after fit: fit's error, nil for every shape of result
WriteResult(shape) ==
  IF shape = "error" THEN "fit_failed"
  ELSE IF shape = "not_map" THEN "ok"
  ELSE IF shape \in {"no_loss", "loss_nan"} THEN "ok"
  ELSE IF shape \in {"no_acc", "acc_nan"} THEN "ok"
  ELSE "ok"

\* Write up to the call of fit
Write(p) ==
  /\ pc[p] = "wait" /\ op[p] = "Write"
  /\ CanLock
  /\ rwm' = Lock(p)
  /\ lockOrder' = Append(lockOrder, rec[p])
  /\ IF WriteTerminated
       THEN Go(p, "ret", "terminated") /\ UNCHANGED bucket
       ELSE /\ bucket' = Append(bucket, rec[p])
            /\ IF ~BatchFull(bucket')
                 THEN Go(p, "ret", "ok")
                 ELSE Go(p, "invoke", "none")
  /\ UNCHANGED <<params, terminated, op, rec, pend, nextRec, fits, lateCalls, io, dlg>>

\* Write from the delegate's fit to the return
WriteFit(p) ==
  /\ pc[p] = "invoke" /\ op[p] = "Write"
  /\ \E shape \in Shapes \cup {"error"} :
       LET ok == shape # "error" IN
       /\ fits' = Append(fits, [batch |-> FitArg(bucket), size |-> params.BatchSize, ok |-> ok])
       /\ dlg' = [dlg EXCEPT ![p] = [arg |-> FitArg(bucket), result |-> shape]]
       /\ bucket' = AfterFit(bucket, ok)
       /\ Go(p, "ret", WriteResult(shape))
  /\ lateCalls' = Late("fit")
  /\ UNCHANGED <<params, terminated, rwm, op, rec, pend, nextRec, lockOrder, io>>

\* the batches and inputs callers pass to Fit, FitMap and Predict: records of
\* their own, none of them a record given to Write
ExplicitBatches == {<<-1, -2>>}

\* a call that hands the delegate the buffer ahead of the caller's batch
CallArgWithBuffer(batch, b) == b \o batch

\* what Fit, FitMap and Predict hand to base.Call: the caller's argument
CallArg(batch, b) == batch

\* base.Call under the read lock: Fit, FitMap and Predict
ReadCall(p) ==
  /\ pc[p] = "wait"
  /\ CanRLock
  /\ rwm' = RLock(p)
  /\ IF BaseCallRefused
       THEN Go(p, "ret", "terminated") /\ UNCHANGED dlg
       ELSE /\ Go(p, "invoke", "none")
            /\ \E batch \in ExplicitBatches :
                 dlg' = [dlg EXCEPT ![p] = [arg |-> CallArg(batch, bucket), result |-> "none"]]
  /\ UNCHANGED <<params, bucket, terminated, op, rec, pend, nextRec, lockOrder, fits, lateCalls, io>>

Fit(p) == op[p] = "Fit" /\ ReadCall(p)

FitMap(p) == op[p] = "FitMap" /\ ReadCall(p)

Predict(p) == op[p] = "Predict" /\ ReadCall(p)

\* the delegate runs fit or predict for Fit, FitMap, Predict
DelegateCall(p) ==
  /\ pc[p] = "invoke" /\ op[p] \in {"Fit", "FitMap", "Predict"}
  /\ \E ok \in BOOLEAN :
       /\ Go(p, "ret", IF ok THEN "ok" ELSE "delegate_failed")
       /\ dlg' = [dlg EXCEPT ![p].result = IF ok THEN "value" ELSE "error"]
  /\ lateCalls' = Late(IF op[p] = "Predict" THEN "predict" ELSE "fit")
  /\ UNCHANGED <<params, bucket, terminated, rwm, op, rec, pend, nextRec, lockOrder, fits, io>>

\* how many bytes the writer takes before it fails: none, the version and the
\* size, or all of them
Accepted(full) == {0, 5, full}

\* Save up to the delegate's save: saveState on a writer that takes k bytes
Save(p) ==
  /\ pc[p] = "wait" /\ op[p] = "Save"
  /\ CanRLock
  /\ rwm' = RLock(p)
  /\ IF CheckTermination
       THEN Go(p, "ret", "terminated") /\ UNCHANGED io
       ELSE LET out == saveState(params)
            IN  \E k \in Accepted(Len(out)) :
                  /\ io' = [io EXCEPT ![p] = [bytes |-> SubSeq(out, 1, k), chunk |-> 0, pos |-> k]]
                  /\ IF k = Len(out) THEN Go(p, "invoke", "none") ELSE Go(p, "ret", "io")
  /\ UNCHANGED <<params, bucket, terminated, op, rec, pend, nextRec, lockOrder, fits, lateCalls, dlg>>

\* return s.base.Save(ctx, w, params): the delegate writes its payload
DelegateSave(p) ==
  /\ pc[p] = "invoke" /\ op[p] = "Save"
  /\ \E ok \in BOOLEAN :
       /\ Go(p, "ret", IF ok THEN "ok" ELSE "delegate_failed")
       /\ io' = [io EXCEPT ![p] = IF ok THEN [@ EXCEPT !.bytes = @ \o Payload, !.pos = @ + Len(Payload)]
                                  ELSE @]
  /\ lateCalls' = Late("save")
  /\ UNCHANGED <<params, bucket, terminated, rwm, op, rec, pend, nextRec, lockOrder, fits, dlg>>

\* Load up to the delegate's load
Load(p) ==
  /\ pc[p] = "wait" /\ op[p] = "Load"
  /\ CanLock
  /\ rwm' = Lock(p)
  /\ IF CheckTermination
       THEN Go(p, "ret", "terminated") /\ UNCHANGED <<pend, io>>
       ELSE \E bytes \in Streams, chunk \in Chunks :
              LET r == LoadParse(bytes, chunk)
              IN  /\ io' = [io EXCEPT ![p] = [bytes |-> bytes, chunk |-> chunk, pos |-> r.pos]]
                  /\ IF r.err # "none"
                       THEN Go(p, "ret", r.err) /\ UNCHANGED pend
                       ELSE Go(p, "invoke", "none") /\ pend' = [pend EXCEPT ![p] = r.saved]
  /\ UNCHANGED <<params, bucket, terminated, op, rec, nextRec, lockOrder, fits, lateCalls, dlg>>

\* a Load that installs the decoded parameters before the delegate has loaded
ParamsAfterLoadEager(old, saved, ok) == saved

\* if err := s.base.Load(ctx, r, params); err != nil { return err }; s.params = saved
ParamsAfterLoad(old, saved, ok) == IF ok THEN saved ELSE old

\* the delegate's load, then s.params = saved
DelegateLoad(p) ==
  /\ pc[p] = "invoke" /\ op[p] = "Load"
  /\ \E ok \in BOOLEAN :
       /\ Go(p, "ret", IF ok THEN "ok" ELSE "delegate_failed")
       /\ params' = ParamsAfterLoad(params, pend[p], ok)
  /\ lateCalls' = Late("load")
  /\ UNCHANGED <<bucket, terminated, rwm, op, rec, pend, nextRec, lockOrder, fits, io, dlg>>

\* Terminate up to the release of the delegate
Terminate(p) ==
  /\ pc[p] = "wait" /\ op[p] = "Terminate"
  /\ CanLock
  /\ rwm' = Lock(p)
  /\ IF BaseTerminateDone
       THEN Go(p, "ret", "ok") /\ bucket' = <<>>
       ELSE Go(p, "invoke", "none") /\ UNCHANGED bucket
  /\ UNCHANGED <<params, terminated, op, rec, pend, nextRec, lockOrder, fits, lateCalls, io, dlg>>

\* a Terminate that discards the buffer whatever the delegate answered
AfterTerminateDiscard(b, ok) == <<>>

\* the buffer after the delegate's terminate: s.bucket = nil unless it failed
AfterTerminate(b, ok) == IF ok THEN <<>> ELSE b

\* the delegate's terminate, then s.bucket = nil
DelegateTerminate(p) ==
  /\ pc[p] = "invoke" /\ op[p] = "Terminate"
  /\ \E ok \in BOOLEAN :
       /\ Go(p, "ret", IF ok THEN "ok" ELSE "delegate_failed")
       /\ terminated' = (terminated \/ ok)
       /\ bucket' = AfterTerminate(bucket, ok)
  /\ lateCalls' = Late("terminate")
  /\ UNCHANGED <<params, rwm, op, rec, pend, nextRec, lockOrder, fits, io, dlg>>

\* the caller is back with its result: its frame is gone
Return(p) ==
  /\ pc' = [pc EXCEPT ![p] = "idle"]
  /\ op' = [op EXCEPT ![p] = "Write"]
  /\ rec' = [rec EXCEPT ![p] = 0]
  /\ pend' = [pend EXCEPT ![p] = [BatchSize |-> 0]]
  /\ ret' = [ret EXCEPT ![p] = "none"]
  /\ io' = [io EXCEPT ![p] = NoIO]
  /\ dlg' = [dlg EXCEPT ![p] = NoCall]

\* a return path that leaves without its unlock
ReleasedNever(w, p) == w

\* the writer of the lock after p's Unlock
Released(w, p) == IF w = p THEN 0 ELSE w

\* the deferred s.rwm.Unlock()
Unlock(p) ==
  /\ pc[p] = "ret" /\ op[p] \in {"Write", "Load", "Terminate"}
  /\ rwm' = [rwm EXCEPT !.writer = Released(@, p)]
  /\ Return(p)
  /\ UNCHANGED <<params, bucket, terminated, nextRec, lockOrder, fits, lateCalls>>

\* the deferred s.rwm.RUnlock()
RUnlock(p) ==
  /\ pc[p] = "ret" /\ op[p] \in {"Fit", "FitMap", "Predict", "Save"}
  /\ rwm' = [rwm EXCEPT !.readers = @ \ {p}]
  /\ Return(p)
  /\ UNCHANGED <<params, bucket, terminated, nextRec, lockOrder, fits, lateCalls>>

Next ==
  \E p \in Callers :
    \/ \E o \in Ops : Call(p, o, MaxRecs)
    \/ Write(p)
    \/ WriteFit(p)
    \/ Fit(p)
    \/ FitMap(p)
    \/ Predict(p)
    \/ DelegateCall(p)
    \/ Save(p)
    \/ DelegateSave(p)
    \/ Load(p)
    \/ DelegateLoad(p)
    \/ Terminate(p)
    \/ DelegateTerminate(p)
    \/ Unlock(p)
    \/ RUnlock(p)

Spec == Init /\ [][Next]_vars

\* p's acquisition of the lock, whichever method it called
Acquire(p) ==
  Write(p) \/ Load(p) \/ Terminate(p) \/ Fit(p) \/ FitMap(p) \/ Predict(p) \/ Save(p)

\* p's steps under the lock: the delegate's answer, then the deferred unlock
Proceed(p) ==
  \/ WriteFit(p) \/ DelegateCall(p) \/ DelegateSave(p) \/ DelegateLoad(p)
  \/ DelegateTerminate(p)
  \/ Unlock(p) \/ RUnlock(p)

\* every delegated call returns and every deferred unlock runs (weak fairness);
\* the lock is fair: a caller that can take it again and again does take it
Fairness == \A p \in Callers : WF_vars(Proceed(p)) /\ SF_vars(Acquire(p))

SpecFair == Spec /\ Fairness

\* the write-only workload: concurrent Writes and nothing else
NextWrite ==
  \E p \in Writers :
    \/ Call(p, "Write", MaxWrites)
    \/ Write(p)
    \/ WriteFit(p)
    \/ Unlock(p)

SpecWrite == Init /\ [][NextWrite]_vars

\* ------------------------------------------------------------- properties
RECURSIVE Flatten(_)
\* the records of a sequence of fit calls, in order
Flatten(fs) == IF fs = <<>> THEN <<>> ELSE fs[1].batch \o Flatten(Tail(fs))

Range(q) == {q[i] : i \in 1..Len(q)}

\* p holds the lock
InCS(p) == pc[p] \in {"invoke", "ret"}

Exclusive(p) == InCS(p) /\ op[p] \in {"Write", "Load", "Terminate"}

Shared(p) == InCS(p) /\ op[p] \in {"Fit", "FitMap", "Predict", "Save"}

\* a Write has called fit and fit has not returned
Flushing == \E p \in Procs : pc[p] = "invoke" /\ op[p] = "Write"

\* C1: with batchSize N >= 1 on a fresh State, none of the first N-1 Writes calls
\* fit; once the N-th Write's fit has returned without failing, fit has been called
\* exactly once, with the N written records in the order of the Writes, and the
\* bucket is empty.
C1_FirstBatch ==
  params.BatchSize >= 1 =>
    /\ Len(lockOrder) < params.BatchSize => fits = <<>>
    /\ (Len(lockOrder) = params.BatchSize /\ ~Flushing /\ (\A i \in 1..Len(fits) : fits[i].ok))
         => /\ Len(fits) = 1
            /\ fits[1].batch = lockOrder
            /\ Len(fits[1].batch) = params.BatchSize
            /\ bucket = <<>>

C1_Witness ==
  /\ params.BatchSize = MaxBatch
  /\ Len(lockOrder) = MaxBatch
  /\ Len(fits) = 1 /\ fits[1].ok
  /\ \A p \in Procs : pc[p] = "idle"

\* C2: with batchSize N, once N Write calls have been made by concurrent callers
\* and all have returned, whatever the interleaving, fit has been called exactly
\* once and its batch holds each of the N records exactly once.
C2_ConcurrentBatch ==
  (/\ params.BatchSize >= 1
   /\ nextRec = params.BatchSize
   /\ \A p \in Procs : pc[p] = "idle")
    => /\ Len(fits) = 1
       /\ Len(fits[1].batch) = params.BatchSize
       /\ Range(fits[1].batch) = 1..params.BatchSize

\* all NumWriters callers were blocked in Write at once: the batch is in the
\* reverse of the order of the calls
C2_Witness ==
  /\ params.BatchSize = NumWriters
  /\ nextRec = NumWriters
  /\ \A p \in Procs : pc[p] = "idle"
  /\ Len(fits) = 1
  /\ \A i \in 1..NumWriters : fits[1].batch[i] = NumWriters + 1 - i

\* C3: a caller inside the critical section of Write, Terminate or Load is alone
\* in it; only Fit, FitMap, Predict and Save share it.
C3_MutualExclusion ==
  \A p \in Procs : \A q \in Procs \ {p} :
    InCS(p) /\ InCS(q) => Shared(p) /\ Shared(q)

\* a Write is flushing while a Predict is blocked on the lock
C3_Witness ==
  \E p \in Procs : \E q \in Procs \ {p} :
    /\ pc[p] = "invoke" /\ op[p] = "Write"
    /\ pc[q] = "wait" /\ op[q] = "Predict"

\* C4: once Terminate has succeeded, Write, Fit, FitMap, Predict, Save and Load
\* all return the "terminated" error, no step changes the bucket or the
\* parameters, and the termination flag stays set.
C4_TerminatedForGood ==
  /\ [](terminated =>
          \A p \in Procs :
            (InCS(p) /\ op[p] # "Terminate") => (pc[p] = "ret" /\ ret[p] = "terminated"))
  /\ [][terminated => (terminated' /\ bucket' = bucket /\ params' = params)]_vars

\* after a Terminate and two Writes before it, a third Write is refused
C4_Witness ==
  /\ terminated
  /\ Len(lockOrder) >= 2
  /\ \E p \in Procs : pc[p] = "ret" /\ op[p] = "Write" /\ ret[p] = "terminated"

C6_BufferBelowBatch ==
  (/\ ~terminated
   /\ params.BatchSize >= 1
   /\ \A p \in Procs : ~(InCS(p) /\ op[p] = "Write"))
    => Len(bucket) < params.BatchSize

\* C7: with a fixed batchSize N >= 1, between Write calls the bucket holds 0 to
\* N-1 records, whether the flushes succeeded or failed.
C7_BufferRange ==
  (params.BatchSize >= 1 /\ ~Flushing)
    => (Len(bucket) >= 0 /\ Len(bucket) <= params.BatchSize - 1)

\* a flush failed and the bucket has since been filled up to N-1 again
C7_Witness ==
  /\ params.BatchSize >= 2
  /\ \E i \in 1..Len(fits) : ~fits[i].ok
  /\ Len(bucket) = params.BatchSize - 1
  /\ \A p \in Procs : pc[p] = "idle"

\* C8: every fit that Write calls gets exactly as many records as the (positive)
\* batchSize in force at the call, also after a Load changed it.
C8_ExactBatch ==
  \A i \in 1..Len(fits) :
    fits[i].size >= 1 => Len(fits[i].batch) = fits[i].size

\* C9: every record whose Write acquired the lock is exactly once either in the
\* bucket or in one fit batch, and batches and bucket follow the order in which
\* the Writes acquired the lock.
C9_NoLossNoDuplicate ==
  /\ Flatten(fits) \o bucket = lockOrder
  /\ \A i \in 1..Len(lockOrder) : \A j \in 1..Len(lockOrder) :
       lockOrder[i] = lockOrder[j] => i = j

\* two batches were flushed, a record waits in the bucket, and the Writes did not
\* acquire the lock in the order of the calls
C9_Witness ==
  /\ Len(fits) >= 2
  /\ bucket # <<>>
  /\ Len(lockOrder) >= 2 /\ lockOrder[1] > lockOrder[2]

\* C10: a Write whose fit failed returns that error with the bucket empty, and
\* no record of a failed batch is in a later batch or in the bucket.
C10_FailedBatchDropped ==
  /\ \A p \in Procs :
       (pc[p] = "ret" /\ op[p] = "Write" /\ fits # <<>>
          /\ fits[Len(fits)].batch # <<>>
          /\ fits[Len(fits)].batch[Len(fits[Len(fits)].batch)] = rec[p])
         => /\ ret[p] = (IF fits[Len(fits)].ok THEN "ok" ELSE "fit_failed")
            /\ bucket = <<>>
  /\ \A i \in 1..Len(fits) :
       ~fits[i].ok =>
         /\ Range(fits[i].batch) \cap Range(bucket) = {}
         /\ \A j \in (i + 1)..Len(fits) : Range(fits[i].batch) \cap Range(fits[j].batch) = {}

\* a first flush failed, Writes went on, and a second failed flush is returning
C10_Witness ==
  /\ Len(fits) >= 2
  /\ ~fits[1].ok
  /\ fits[1].batch # <<>>
  /\ \E p \in Procs : pc[p] = "ret" /\ op[p] = "Write" /\ ret[p] = "fit_failed"

\* p's Load has read from its reader (the State was not terminated)
Loading(p) == op[p] = "Load" /\ pc[p] \in {"invoke", "ret"} /\ io[p].chunk > 0

\* p takes a step of its own
Steps(p) == pc'[p] # pc[p]

\* C11: a Load whose stream starts with a version byte other than 1 returns the
\* unsupported-version error without calling the delegate's load, and params and
\* bucket are as before the call.
C11_UnsupportedVersion ==
  /\ [](\A p \in Procs :
          (Loading(p) /\ io[p].bytes # <<>> /\ io[p].bytes[1] # 1)
            => (pc[p] = "ret" /\ ret[p] = "unsupported_version"))
  /\ [][\A p \in Procs :
          (/\ op[p] = "Load" /\ pc[p] = "wait" /\ Steps(p)
           /\ io'[p].chunk > 0 /\ io'[p].bytes # <<>> /\ io'[p].bytes[1] # 1)
            => (params' = params /\ bucket' = bucket)]_vars

\* a Load of a version-2 stream is returning while records wait in the bucket
C11_Witness ==
  \E p \in Procs :
    /\ Loading(p) /\ pc[p] = "ret" /\ ret[p] = "unsupported_version"
    /\ io[p].bytes[1] = 2
    /\ bucket # <<>>

\* C12: a Load that returns an error, from the delegate's load or from any step
\* before it, leaves params as they were; a Load that succeeds leaves params equal
\* to the ones decoded from its stream, installed by the step that ends the
\* delegate's load.
C12_LoadCommitsLast ==
  /\ [](\A p \in Procs :
          (Loading(p) /\ pc[p] = "ret" /\ ret[p] = "ok")
            => /\ params = pend[p]
               /\ SubSeq(io[p].bytes, 1, Len(saveState(params))) = saveState(params))
  /\ [][\A p \in Procs :
          (op[p] = "Load" /\ Steps(p) /\ ret'[p] # "ok") => params' = params]_vars

\* the delegate's load failed on a stream whose parameters differ from the live ones
C12_Witness ==
  \E p \in Procs :
    /\ Loading(p) /\ pc[p] = "ret" /\ ret[p] = "delegate_failed"
    /\ pend[p] # params
    /\ params.BatchSize >= 1 /\ pend[p].BatchSize >= 1

\* the bytes a successful Save leaves on a State whose batchSize is b
SavedBy(b) == saveState([BatchSize |-> b]) \o Payload

\* C13: Save writes its State's parameters and changes neither params nor bucket,
\* and a Load of the bytes a Save wrote on a State with batchSize b, the delegate's
\* load succeeding, returns success with batchSize b.
C13_RoundTrip ==
  /\ [](\A p \in Procs :
          /\ (op[p] = "Save" /\ pc[p] = "ret" /\ ret[p] = "ok")
               => io[p].bytes = SavedBy(params.BatchSize)
          /\ \A b \in BatchSizes :
               (Loading(p) /\ pc[p] = "ret" /\ ret[p] # "delegate_failed"
                  /\ io[p].bytes = SavedBy(b))
                 => (ret[p] = "ok" /\ params.BatchSize = b))
  /\ [][\A p \in Procs :
          (op[p] = "Save" /\ Steps(p)) => (params' = params /\ bucket' = bucket)]_vars

\* the same round trip through readers that fill the buffer in one Read
RoundTripFullReads ==
  \A p \in Procs : \A b \in BatchSizes :
    (Loading(p) /\ pc[p] = "ret" /\ ret[p] # "delegate_failed"
       /\ io[p].bytes = SavedBy(b) /\ io[p].chunk >= Len(io[p].bytes))
      => (ret[p] = "ok" /\ params.BatchSize = b)

\* the size a version-1 stream declares for its parameter block
ConfigLen(bytes) == Uint32(SubSeq(bytes, 2, 5))

\* a version-1 stream that declares a block of n > 0 bytes and holds them
HoldsBlock(bytes) ==
  /\ Len(bytes) >= 5 /\ bytes[1] = 1
  /\ ConfigLen(bytes) > 0 /\ Len(bytes) - 5 >= ConfigLen(bytes)

\* C14: on a version-1 stream that declares configLen > 0 and holds that many
\* bytes, Load has consumed exactly 5 + configLen bytes when it reaches the
\* delegate's load, and it does reach it, however few bytes one Read returns.
C14_ReadsExactly ==
  \A p \in Procs :
    (Loading(p) /\ HoldsBlock(io[p].bytes))
      => /\ io[p].pos = 5 + ConfigLen(io[p].bytes)
         /\ ret[p] \in {"none", "ok", "delegate_failed"}

\* a version-1 stream that declares an empty parameter block
DeclaresNothing(bytes) == Len(bytes) >= 5 /\ bytes[1] = 1 /\ ConfigLen(bytes) = 0

\* C15: a Load of a version-1 stream whose configLen is 0 returns the zero-size
\* error with only the 5 header bytes consumed, never reaches the decoder or the
\* delegate's load, and leaves params and bucket as they were.
C15_ZeroLength ==
  /\ [](\A p \in Procs :
          (Loading(p) /\ DeclaresNothing(io[p].bytes))
            => (pc[p] = "ret" /\ ret[p] = "zero_size" /\ io[p].pos = 5))
  /\ [][\A p \in Procs :
          (op[p] = "Load" /\ pc[p] = "wait" /\ Steps(p) /\ io'[p].chunk > 0
             /\ DeclaresNothing(io'[p].bytes))
            => (params' = params /\ bucket' = bucket)]_vars

\* a Load of such a stream, with bytes after the header, returns with a record buffered
C15_Witness ==
  \E p \in Procs :
    /\ Loading(p) /\ DeclaresNothing(io[p].bytes) /\ Len(io[p].bytes) > 5
    /\ ret[p] = "zero_size"
    /\ bucket # <<>>

\* C16: New refuses a batch size that is not positive, so the parameters of
\* every State that exists have BatchSize >= 1.
C16_BatchSizePositive == params.BatchSize >= 1

\* C20: when the delegate's terminate fails, Terminate returns that error and
\* the step leaves bucket, params and the termination flag as they were; the
\* buffer is discarded only by a Terminate that returns success.
C20_FailedTerminateKeeps ==
  /\ [](\A p \in Procs :
          (op[p] = "Terminate" /\ pc[p] = "ret" /\ ret[p] = "ok") => bucket = <<>>)
  /\ [][\A p \in Procs :
          (op[p] = "Terminate" /\ pc[p] = "invoke" /\ Steps(p) /\ ret'[p] # "ok")
            => /\ ret'[p] = "delegate_failed"
               /\ bucket' = bucket /\ params' = params /\ terminated' = terminated]_vars

\* a Terminate is back from a failed delegate terminate with records still buffered
C20_Witness ==
  \E p \in Procs :
    /\ op[p] = "Terminate" /\ pc[p] = "ret" /\ ret[p] = "delegate_failed"
    /\ bucket # <<>> /\ Len(bucket) < params.BatchSize
    /\ ~terminated

\* a caller inside Fit, FitMap or Predict with the delegate called
Calling(p) == op[p] \in {"Fit", "FitMap", "Predict"} /\ pc[p] \in {"invoke", "ret"}

\* C18: no step of Fit, FitMap or Predict, whether the call succeeds or fails,
\* changes bucket or params, so the number of records Write still needs for its
\* next flush stays the same; and the batch handed to the delegate holds none
\* of the buffered records.
C18_ReadersLeaveBuffer ==
  /\ [](\A p \in Procs :
          Calling(p) => Range(dlg[p].arg) \cap Range(bucket) = {})
  /\ [][\A p \in Procs :
          (op[p] \in {"Fit", "FitMap", "Predict"} /\ Steps(p))
            => /\ bucket' = bucket /\ params' = params
               /\ params'.BatchSize - Len(bucket') = params.BatchSize - Len(bucket)]_vars

\* a Fit is back from a failed delegate call while records are buffered
C18_Witness ==
  \E p \in Procs :
    /\ Calling(p) /\ op[p] = "Fit" /\ pc[p] = "ret" /\ dlg[p].result = "error"
    /\ Len(dlg[p].arg) = 2
    /\ bucket # <<>> /\ Len(bucket) < params.BatchSize

\* C19: when the delegate's fit called by Write's flush succeeds, Write returns
\* success for every shape of the fit result, and the buffer is empty.
C19_ShapeIgnored ==
  \A p \in Procs :
    (op[p] = "Write" /\ pc[p] = "ret" /\ dlg[p].result \in Shapes)
      => (ret[p] = "ok" /\ bucket = <<>>)

\* a flush of a whole batch is back with a fit result that is not a map
C19_Witness ==
  \E p \in Procs :
    /\ op[p] = "Write" /\ pc[p] = "ret" /\ dlg[p].result = "not_map"
    /\ Len(dlg[p].arg) = params.BatchSize /\ params.BatchSize >= 2

\* C17: with delegated calls that return and a fair lock, every call of a
\* method of State returns: a caller that is inside a method, waiting for the
\* lock or holding it, is eventually back outside, whatever the other callers do.
C17_EveryCallReturns == \A p \in Callers : (pc[p] # "idle") ~> (pc[p] = "idle")

\* a caller waits for the lock while another caller holds it exclusively
C17_Witness ==
  \E p, q \in Callers :
    /\ p # q
    /\ pc[p] = "wait" /\ op[p] \in {"Fit", "Save", "Load", "Terminate"}
    /\ rwm.writer = q /\ pc[q] = "invoke"

====
